---- MODULE Spec2Model ----
(***************************************************************************)
(* Eye of Riyadh -> ICS generator (src/scraper.py).                        *)
(*                                                                         *)
(* Text that the code handles character by character (date_text) is a      *)
(* sequence of one-character strings.  Text that the code only compares    *)
(* and copies (title, link, location, description) is a string, and ""     *)
(* stands for both None and the empty string: the code tests these fields  *)
(* by truthiness only.  A datetime is a record [y, m, d, h, mi, s] in      *)
(* Asia/Riyadh wall-clock time; NoDt stands for None.                      *)
(***************************************************************************)
EXTENDS Integers, Sequences, FiniteSets, TLC

VARIABLES
    pc,         \* position of main(): "scrape", "enrich", "build", "write",
                \* "done", "raised"; "parse" and "parsed" for parse_dt alone
    now,        \* datetime.now() as last read: the host's naive wall-clock time
    hostOffset, \* the host's UTC offset in hours (its configured timezone)
    urlIdx,     \* index of the next listing URL of list_page_urls() to fetch
    anyPage,    \* whether fetch() returned any listing page in this run
    events,     \* scrape_listings: the raw records, then the deduplicated ones
    raw,        \* the raw records as they were before deduplication
    enriched,   \* main: records after enrich_from_detail
    before,     \* the records as they were when handed to enrich_from_detail
    detail,     \* per enriched record, what the detail fetch did: [res |-> "nolink"],
                \* [res |-> "fail"] or [res |-> "ok", page |-> the detail page]
    future,     \* main: records kept by the recency filter
    ics,        \* main: the document returned by build_ics
    outFile,    \* contents of OUT_FILE on disk
    text,       \* parse_dt: its argument
    parsed      \* parse_dt: its result <<start, end>>

vars == <<pc, now, hostOffset, urlIdx, anyPage, events, raw, enriched, before,
          detail, future, ics, outFile, text, parsed>>

----------------------------------------------------------------------------
(* Bounds of the model *)

\* cards extracted over one run of scrape_listings
MaxCards == 2

----------------------------------------------------------------------------
(* Dates *)

NoDt == [none |-> TRUE]

Dt(y, m, d, h, mi, s) == [y |-> y, m |-> m, d |-> d, h |-> h, mi |-> mi, s |-> s]

IsLeap(y) == (y % 4 = 0) /\ ((y % 100 # 0) \/ (y % 400 = 0))

DaysInMonth(y, m) ==
    IF m = 2 THEN (IF IsLeap(y) THEN 29 ELSE 28)
    ELSE IF m \in {4, 6, 9, 11} THEN 30 ELSE 31

RECURSIVE DaysBeforeMonth(_, _)
DaysBeforeMonth(y, m) ==
    IF m <= 1 THEN 0 ELSE DaysBeforeMonth(y, m - 1) + DaysInMonth(y, m - 1)

\* date.toordinal()
Ordinal(t) ==
    LET y1 == t.y - 1
    IN  365 * y1 + (y1 \div 4) - (y1 \div 100) + (y1 \div 400)
          + DaysBeforeMonth(t.y, t.m) + t.d

NextDay(t) ==
    IF t.d < DaysInMonth(t.y, t.m) THEN [t EXCEPT !.d = t.d + 1]
    ELSE IF t.m < 12 THEN [t EXCEPT !.d = 1, !.m = t.m + 1]
    ELSE [t EXCEPT !.d = 1, !.m = 1, !.y = t.y + 1]

PrevDay(t) ==
    IF t.d > 1 THEN [t EXCEPT !.d = t.d - 1]
    ELSE IF t.m > 1 THEN [t EXCEPT !.m = t.m - 1, !.d = DaysInMonth(t.y, t.m - 1)]
    ELSE [t EXCEPT !.y = t.y - 1, !.m = 12, !.d = 31]

\* datetime + timedelta(hours=n), for -24 < n < 24
AddHours(t, n) ==
    LET h2 == t.h + n
    IN  IF h2 >= 24 THEN [NextDay(t) EXCEPT !.h = h2 - 24]
        ELSE IF h2 < 0 THEN [PrevDay(t) EXCEPT !.h = h2 + 24]
        ELSE [t EXCEPT !.h = h2]

\* total order on datetimes
Before(a, b) ==
    \/ Ordinal(a) < Ordinal(b)
    \/ /\ Ordinal(a) = Ordinal(b)
       /\ (a.h * 3600 + a.mi * 60 + a.s) < (b.h * 3600 + b.mi * 60 + b.s)

----------------------------------------------------------------------------
(* Text *)

Digits == {"0", "1", "2", "3", "4", "5", "6", "7", "8", "9"}

DigitVal(c) ==
    CASE c = "0" -> 0 [] c = "1" -> 1 [] c = "2" -> 2 [] c = "3" -> 3
      [] c = "4" -> 4 [] c = "5" -> 5 [] c = "6" -> 6 [] c = "7" -> 7
      [] c = "8" -> 8 [] c = "9" -> 9

IsSpace(c) == c = " "

RECURSIVE Collapse(_)
Collapse(s) ==
    IF Len(s) <= 1 THEN s
    ELSE IF IsSpace(s[1]) /\ IsSpace(s[2]) THEN Collapse(Tail(s))
    ELSE <<s[1]>> \o Collapse(Tail(s))

RECURSIVE LStrip(_)
LStrip(s) == IF s # <<>> /\ IsSpace(s[1]) THEN LStrip(Tail(s)) ELSE s

RECURSIVE RStrip(_)
RStrip(s) ==
    IF s # <<>> /\ IsSpace(s[Len(s)]) THEN RStrip(SubSeq(s, 1, Len(s) - 1)) ELSE s

\* re.sub(r"\s+", " ", s or "").strip()
normalize_whitespace(s) == RStrip(LStrip(Collapse(s)))

\* the one character U+2013 (en dash)
EnDash == "ndash"

\* the character class [\u2013\-to] under re.I
IsDelim(c) == c \in {"-", EnDash, "t", "o", "T", "O"}

\* the pattern \s?[\u2013\-to]+\s? matches starting at position i
MatchAt(s, i) ==
    \/ IsDelim(s[i])
    \/ IsSpace(s[i]) /\ i + 1 <= Len(s) /\ IsDelim(s[i + 1])

RECURSIVE DelimRunEnd(_, _)
DelimRunEnd(s, j) ==
    IF j + 1 <= Len(s) /\ IsDelim(s[j + 1]) THEN DelimRunEnd(s, j + 1) ELSE j

\* last position of the (greedy) match that starts at i
MatchEnd(s, i) ==
    LET j0 == IF IsDelim(s[i]) THEN i ELSE i + 1
        j1 == DelimRunEnd(s, j0)
    IN  IF j1 + 1 <= Len(s) /\ IsSpace(s[j1 + 1]) THEN j1 + 1 ELSE j1

\* re.split(r"\s?[\u2013\-to]+\s?", text, flags=re.I)
RECURSIVE re_split(_)
re_split(s) ==
    LET starts == {i \in 1..Len(s) : MatchAt(s, i)}
    IN  IF starts = {} THEN <<s>>
        ELSE LET i == CHOOSE k \in starts : \A k2 \in starts : k <= k2
                 e == MatchEnd(s, i)
             IN  <<SubSeq(s, 1, i - 1)>> \o re_split(SubSeq(s, e + 1, Len(s)))


----------------------------------------------------------------------------
(* dateutil.parser.parse(timestr, dayfirst=True, default=...), for strings  *)
(* made of space-separated tokens: numbers of 1 to 4 digits, the month      *)
(* names of MonthOf, and HH:MM.  Any other token raises ParserError.        *)

RECURSIVE Tokens(_)
Tokens(s) ==
    LET t == LStrip(s)
    IN  IF t = <<>> THEN <<>>
        ELSE LET sp == {i \in 1..Len(t) : IsSpace(t[i])}
                 n  == IF sp = {} THEN Len(t)
                       ELSE (CHOOSE k \in sp : \A k2 \in sp : k <= k2) - 1
             IN  <<SubSeq(t, 1, n)>> \o Tokens(SubSeq(t, n + 1, Len(t)))

IsNumber(tok) ==
    /\ Len(tok) \in 1..4
    /\ \A i \in 1..Len(tok) : tok[i] \in Digits

RECURSIVE NumVal(_)
NumVal(tok) ==
    IF tok = <<>> THEN 0
    ELSE 10 * NumVal(SubSeq(tok, 1, Len(tok) - 1)) + DigitVal(tok[Len(tok)])

\* parserinfo.MONTHS (the names used here); 0: not a month name
MonthOf(tok) ==
    CASE tok = <<"J", "a", "n">> -> 1
      [] tok = <<"F", "e", "b">> -> 2
      [] tok = <<"M", "a", "r">> -> 3
      [] tok = <<"D", "e", "c">> -> 12
      [] OTHER -> 0

IsTime(tok) ==
    /\ Len(tok) = 5
    /\ tok[3] = ":"
    /\ \A i \in {1, 2, 4, 5} : tok[i] \in Digits

NoFields == [ok |-> TRUE, ymd |-> <<>>, hh |-> -1, mm |-> -1]

\* one token of the parser's loop: ymd collects the date numbers with their
\* labels ("Y" for a number of more than two digits, "M" for a month name)
ParseToken(acc, tok) ==
    IF IsTime(tok)
    THEN IF acc.hh >= 0 THEN [acc EXCEPT !.ok = FALSE]
         ELSE [acc EXCEPT !.hh = NumVal(SubSeq(tok, 1, 2)),
                          !.mm = NumVal(SubSeq(tok, 4, 5))]
    ELSE IF MonthOf(tok) > 0
    THEN IF \E i \in 1..Len(acc.ymd) : acc.ymd[i].lab = "M"
         THEN [acc EXCEPT !.ok = FALSE]
         ELSE [acc EXCEPT !.ymd = Append(@, [v |-> MonthOf(tok), lab |-> "M"])]
    ELSE IF IsNumber(tok) /\ NumVal(tok) > 0
    THEN IF Len(acc.ymd) = 3 /\ Len(tok) \in {2, 4} /\ acc.hh < 0
         THEN [acc EXCEPT !.hh = NumVal(SubSeq(tok, 1, 2)),
                          !.mm = IF Len(tok) = 4
                                 THEN NumVal(SubSeq(tok, 3, 4)) ELSE 0]
         ELSE IF Len(tok) > 2
         THEN IF \E i \in 1..Len(acc.ymd) : acc.ymd[i].lab = "Y"
              THEN [acc EXCEPT !.ok = FALSE]
              ELSE [acc EXCEPT !.ymd = Append(@, [v |-> NumVal(tok), lab |-> "Y"])]
         ELSE [acc EXCEPT !.ymd = Append(@, [v |-> NumVal(tok), lab |-> ""])]
    ELSE [acc EXCEPT !.ok = FALSE]

RECURSIVE ParseTokens(_, _)
ParseTokens(toks, acc) ==
    IF toks = <<>> \/ ~acc.ok THEN acc
    ELSE ParseTokens(Tail(toks), ParseToken(acc, Head(toks)))

\* _ymd.resolve_ymd(yearfirst=False, dayfirst=True); 0 stands for None
resolve_ymd(ymd) ==
    LET n    == Len(ymd)
        ys   == {i \in 1..n : ymd[i].lab = "Y"}
        ms   == {i \in 1..n : ymd[i].lab = "M"}
        yi   == IF ys = {} THEN 0 ELSE CHOOSE i \in ys : TRUE
        mI   == IF ms = {} THEN 0 ELSE CHOOSE i \in ms : TRUE
        L    == Cardinality(ys) + Cardinality(ms)
        v(i) == ymd[i].v
        R(y, m, d) == [ok |-> TRUE, y |-> y, m |-> m, d |-> d]
    IN  IF n > 3 THEN [ok |-> FALSE, y |-> 0, m |-> 0, d |-> 0]
        ELSE IF n = 0 THEN R(0, 0, 0)
        ELSE IF n = L \/ (n = 3 /\ L = 2)
        THEN LET others == {i \in 1..n : i # yi /\ i # mI}
             IN  R(IF yi > 0 THEN v(yi) ELSE 0,
                   IF mI > 0 THEN v(mI) ELSE 0,
                   IF others = {} THEN 0 ELSE v(CHOOSE i \in others : TRUE))
        ELSE IF n = 1 \/ (mI > 0 /\ n = 2)
        THEN LET other == IF mI > 0 THEN v(3 - mI) ELSE v(1)
                 month == IF mI > 0 THEN v(mI) ELSE 0
             IN  IF other > 31 THEN R(other, month, 0) ELSE R(0, month, other)
        ELSE IF n = 2
        THEN IF v(1) > 31 THEN R(v(1), v(2), 0)
             ELSE IF v(2) > 31 THEN R(v(2), v(1), 0)
             ELSE IF v(2) <= 12 THEN R(0, v(2), v(1))
             ELSE R(0, v(1), v(2))
        ELSE IF mI = 1
        THEN IF v(2) > 31 THEN R(v(2), v(1), v(3)) ELSE R(v(3), v(1), v(2))
        ELSE IF mI = 2
        THEN IF v(1) > 31 THEN R(v(1), v(2), v(3)) ELSE R(v(3), v(2), v(1))
        ELSE IF mI = 3
        THEN IF v(2) > 31 THEN R(v(2), v(3), v(1)) ELSE R(v(1), v(3), v(2))
        ELSE IF v(1) > 31 \/ yi = 1
        THEN IF v(3) <= 12 THEN R(v(1), v(3), v(2)) ELSE R(v(1), v(2), v(3))
        ELSE IF v(1) > 12 \/ v(2) <= 12 THEN R(v(3), v(2), v(1))
        ELSE R(v(3), v(1), v(2))

\* parserinfo.convertyear: a year given with two digits, around the current year
convertyear(y, nowYear) ==
    IF y >= 100 THEN y
    ELSE LET c == y + (nowYear \div 100) * 100
         IN  IF c >= nowYear + 50 THEN c - 100
             ELSE IF c < nowYear - 50 THEN c + 100
             ELSE c

\* default.replace(**repl): the fields found replace those of default; a day
\* the string does not give is cut to the month's length; ValueError gives NoDt
ReplaceFields(year, month, r, p, default) ==
    IF month > 12 \/ r.d > DaysInMonth(year, month) \/ p.hh > 23 \/ p.mm > 59
    THEN NoDt
    ELSE Dt(year, month,
            IF r.d > 0 THEN r.d
            ELSE IF default.d > DaysInMonth(year, month)
                 THEN DaysInMonth(year, month) ELSE default.d,
            IF p.hh >= 0 THEN p.hh ELSE default.h,
            IF p.hh >= 0 THEN p.mm ELSE default.mi,
            default.s)

BuildDate(r, p, default, nowYear) ==
    IF ~r.ok THEN NoDt
    ELSE ReplaceFields(IF r.y > 0 THEN convertyear(r.y, nowYear) ELSE default.y,
                       IF r.m > 0 THEN r.m ELSE default.m,
                       r, p, default)

ParseFields(p, default, nowYear) ==
    IF ~p.ok \/ (p.ymd = <<>> /\ p.hh < 0) THEN NoDt
    ELSE BuildDate(resolve_ymd(p.ymd), p, default, nowYear)

\* dateparser.parse(seg, dayfirst=True, default=default); NoDt when it raises
dateparse(seg, default, nowYear) ==
    ParseFields(ParseTokens(Tokens(seg), NoFields), default, nowYear)

\* "if start.hour == 0 and start.minute == 0": midnight read as "no time given"
AllDay(t, hour) ==
    IF t = NoDt THEN t
    ELSE IF t.h = 0 /\ t.mi = 0 THEN [t EXCEPT !.h = hour, !.mi = 0]
    ELSE t

\* TZ.localize(datetime.now()).replace(hour=9, minute=0, second=0, microsecond=0)
StartDefault(nw) == [nw EXCEPT !.h = 9, !.mi = 0, !.s = 0]

\* default=start or TZ.localize(datetime.now())
EndDefault(start0, nw) == IF start0 # NoDt THEN start0 ELSE nw

\* the second segment parsed only when the first one parsed
ParseEnd_NeedsStart(m, start0, nw) ==
    IF Len(m) > 1 /\ start0 # NoDt
    THEN dateparse(m[2], EndDefault(start0, nw), nw.y)
    ELSE NoDt

\* lines 96-103: end, from the second segment if there is one
ParseEnd(m, start0, nw) ==
    IF Len(m) > 1
    THEN dateparse(m[2], EndDefault(start0, nw), nw.y)
    ELSE NoDt

\* lines 105-111
StartEnd(m, start0, nw) ==
    <<AllDay(start0, 9), AllDay(ParseEnd(m, start0, nw), 18)>>

ParseSegments(m, nw) ==
    StartEnd(m, dateparse(m[1], StartDefault(nw), nw.y), nw)

\* parse_dt(text) when datetime.now() is nw; the result is <<start, end>>
parse_dt(t, nw) ==
    IF t = <<>> THEN <<NoDt, NoDt>>
    ELSE ParseSegments(re_split(normalize_whitespace(t)), nw)

----------------------------------------------------------------------------
(* Inputs *)

\* "12-15 Jan 2026"
TxtRange ==
    <<"1", "2", "-", "1", "5", " ", "J", "a", "n", " ", "2", "0", "2", "6">>

\* "12 Jan 2026"
TxtSingle ==
    <<"1", "2", " ", "J", "a", "n", " ", "2", "0", "2", "6">>

\* "12 Jan 2026 - 15 Jan 2026"
TxtRangeFull ==
    <<"1", "2", " ", "J", "a", "n", " ", "2", "0", "2", "6", " ", "-", " ", "1", "5", " ", "J", "a", "n", " ", "2", "0", "2", "6">>

\* "12 Jan 2026 - 15"
TxtRangeTail ==
    <<"1", "2", " ", "J", "a", "n", " ", "2", "0", "2", "6", " ", "-", " ", "1", "5">>

\* "xyz - 15 Jan 2026"
TxtBadStart ==
    <<"x", "y", "z", " ", "-", " ", "1", "5", " ", "J", "a", "n", " ", "2", "0", "2", "6">>

\* "xyz - abc"
TxtBadBoth ==
    <<"x", "y", "z", " ", "-", " ", "a", "b", "c">>

\* "xyz"
TxtGarbage ==
    <<"x", "y", "z">>

\* "12 Oct 2025"
TxtOct ==
    <<"1", "2", " ", "O", "c", "t", " ", "2", "0", "2", "5">>

\* "12 Jan 2026 00:00 - 15 Jan 2026 00:00"
TxtMidnight ==
    <<"1", "2", " ", "J", "a", "n", " ", "2", "0", "2", "6", " ", "0", "0", ":", "0", "0", " ", "-", " ", "1", "5", " ", "J", "a", "n", " ", "2", "0", "2", "6", " ", "0", "0", ":", "0", "0">>

\* "3 Jan 2026"
TxtWeek ==
    <<"3", " ", "J", "a", "n", " ", "2", "0", "2", "6">>

\* " 2  Jan 2026 "
TxtOld ==
    <<" ", "2", " ", " ", "J", "a", "n", " ", "2", "0", "2", "6", " ">>

\* "31"
TxtDay31 ==
    <<"3", "1">>

\* " "
TxtBlank ==
    <<" ">>

DateTexts ==
    {<<>>, TxtRange, TxtSingle, TxtRangeFull, TxtRangeTail, TxtBadStart, TxtBadBoth, TxtGarbage, TxtOct, TxtMidnight, TxtWeek, TxtOld, TxtDay31, TxtBlank}

\* host clocks: a scheduled run (05:00), late evening, midnight, another month
NowSet ==
    {Dt(2026, 1, 10, 5, 0, 0), Dt(2026, 1, 10, 22, 30, 15),
     Dt(2026, 1, 11, 0, 0, 0), Dt(2026, 2, 10, 5, 0, 7)}

\* UTC offsets of the host: a UTC runner, a host in Riyadh
HostOffsets == {0, 3}


----------------------------------------------------------------------------
(* Event records *)

Rec(t, l, d, loc, desc) ==
    [title |-> t, link |-> l, date_text |-> d, location |-> loc, description |-> desc]

\* text of a card's title element; "u1" is a heading that spells the URL u1
Titles == {"", "t1", "u1"}

\* a card's href, already absolute; "" when the card has no anchor or no href
Hrefs == {"", "u1", "u2"}

\* what the listing extractor can read from one card
Cards ==
    {Rec(t, l, d, loc, "") :
        t \in Titles, l \in Hrefs, d \in {<<>>, TxtWeek}, loc \in {"", "loc"}}

\* sequences over S of length at most n
RECURSIVE SeqsUpTo(_, _)
SeqsUpTo(S, n) ==
    IF n = 0 THEN {<<>>}
    ELSE LET shorter == SeqsUpTo(S, n - 1)
         IN  shorter \cup {Append(q, x) : q \in shorter, x \in S}

\* what the detail-page selectors can give: date, location, description
DetailPages ==
    {[d |-> <<>>, l |-> "", desc |-> ""],
     [d |-> TxtSingle, l |-> "", desc |-> "desc"],
     [d |-> <<>>, l |-> "loc2", desc |-> "desc"],
     [d |-> TxtSingle, l |-> "loc2", desc |-> "desc"]}

----------------------------------------------------------------------------
(* list_page_urls *)

\* EOR_MAX_PAGES
MAX_PAGES == 2

\* the pagination patterns
NumPatterns == 5

RECURSIVE Dedupe(_, _)
Dedupe(xs, seen) ==
    IF xs = <<>> THEN <<>>
    ELSE IF Head(xs) \in seen THEN Dedupe(Tail(xs), seen)
    ELSE <<Head(xs)>> \o Dedupe(Tail(xs), seen \cup {Head(xs)})

\* a URL is <<page, pattern>>; <<1, 0>> is BASE_URL
list_page_urls ==
    LET n    == (MAX_PAGES - 1) * NumPatterns
        urls == <<<<1, 0>>>> \o
                [k \in 1..n |-> <<2 + ((k - 1) \div NumPatterns),
                                  1 + ((k - 1) % NumPatterns)>>]
    IN  Dedupe(urls, {})


----------------------------------------------------------------------------
(* scrape_listings *)

\* malformed href such as "http://[": urljoin raises ValueError
BadHref == "http://["

\* key = e.get("link") or e.get("title")
KeyOf(e) == IF e.link # "" THEN e.link ELSE e.title

\* the loop without the "key and" test: a record with neither link nor title is kept
RECURSIVE DedupFrom_NoKeyTest(_, _)
DedupFrom_NoKeyTest(xs, seen) ==
    IF xs = <<>> THEN <<>>
    ELSE LET e   == Head(xs)
             key == IF e.link # "" THEN e.link ELSE e.title
         IN  IF key \notin seen
             THEN <<e>> \o DedupFrom_NoKeyTest(Tail(xs), seen \cup {key})
             ELSE DedupFrom_NoKeyTest(Tail(xs), seen)

\* the deduplication loop: dedup[key] = e for the first e of each non-empty key,
\* then list(dedup.values()), in insertion order
RECURSIVE DedupFrom(_, _)
DedupFrom(xs, seen) ==
    IF xs = <<>> THEN <<>>
    ELSE LET e   == Head(xs)
             key == KeyOf(e)
         IN  IF key # "" /\ key \notin seen
             THEN <<e>> \o DedupFrom(Tail(xs), seen \cup {key})
             ELSE DedupFrom(Tail(xs), seen)

\* dedup[key] = e without the "key not in dedup" test: the first position, the last record
dedup_LastWins(xs) ==
    LET f == DedupFrom(xs, {})
    IN  [k \in 1..Len(f) |->
            LET same == {i \in 1..Len(xs) : KeyOf(xs[i]) = KeyOf(f[k])}
            IN  xs[CHOOSE i \in same : \A j \in same : j <= i]]

dedup(xs) == DedupFrom(xs, {})

\* one iteration of the page loop: fetch(url) raises, the page is skipped
PageFetchFails ==
    /\ pc = "scrape"
    /\ urlIdx <= Len(list_page_urls)
    /\ urlIdx' = urlIdx + 1
    /\ UNCHANGED <<pc, now, hostOffset, anyPage, events, raw, enriched, before,
                   detail, future, ics, outFile, text, parsed>>

\* one iteration of the page loop: the page is fetched and its cards (none when
\* no card selector matches) are appended as raw records
PageCards ==
    /\ pc = "scrape"
    /\ urlIdx <= Len(list_page_urls)
    /\ \E cs \in SeqsUpTo(Cards, MaxCards - Len(events)) :
           events' = events \o cs
    /\ urlIdx' = urlIdx + 1
    /\ anyPage' = TRUE
    /\ UNCHANGED <<pc, now, hostOffset, raw, enriched, before, detail, future,
                   ics, outFile, text, parsed>>

\* one iteration of the page loop: a card of the fetched page carries BadHref;
\* urljoin(url, href) raises, nothing in scrape_listings or main catches it
PageBadHref ==
    /\ pc = "scrape"
    /\ urlIdx <= Len(list_page_urls)
    /\ pc' = "raised"
    /\ anyPage' = TRUE
    /\ UNCHANGED <<now, hostOffset, urlIdx, events, raw, enriched, before,
                   detail, future, ics, outFile, text, parsed>>

\* the page loop is over: deduplicate and return to main
ScrapeReturn ==
    /\ pc = "scrape"
    /\ urlIdx > Len(list_page_urls)
    /\ raw' = events
    /\ events' = dedup(events)
    /\ before' = events'
    /\ pc' = "enrich"
    /\ UNCHANGED <<now, hostOffset, urlIdx, anyPage, enriched, detail, future,
                   ics, outFile, text, parsed>>

----------------------------------------------------------------------------
(* enrich_from_detail, called from main's loop; the record is changed in place *)

\* location written without the "if not event.get(...)" test
Enriched_Overwrites(e, page) ==
    [e EXCEPT !.date_text   = IF e.date_text = <<>> THEN page.d ELSE @,
              !.location    = page.l,
              !.description = page.desc]

\* the record after a detail page was fetched
Enriched(e, page) ==
    [e EXCEPT !.date_text   = IF e.date_text = <<>> THEN page.d ELSE @,
              !.location    = IF e.location = "" THEN page.l ELSE @,
              !.description = page.desc]

EnrichNoLink ==
    /\ pc = "enrich"
    /\ Len(enriched) < Len(events)
    /\ LET e == events[Len(enriched) + 1]
       IN  /\ e.link = ""
           /\ enriched' = Append(enriched, e)
           /\ detail' = Append(detail, [res |-> "nolink"])
    /\ UNCHANGED <<pc, now, hostOffset, urlIdx, anyPage, events, raw, before,
                   future, ics, outFile, text, parsed>>

EnrichFetchFails ==
    /\ pc = "enrich"
    /\ Len(enriched) < Len(events)
    /\ LET e == events[Len(enriched) + 1]
       IN  /\ e.link # ""
           /\ enriched' = Append(enriched, e)
           /\ detail' = Append(detail, [res |-> "fail"])
    /\ UNCHANGED <<pc, now, hostOffset, urlIdx, anyPage, events, raw, before,
                   future, ics, outFile, text, parsed>>

EnrichFetched ==
    /\ pc = "enrich"
    /\ Len(enriched) < Len(events)
    /\ LET i == Len(enriched) + 1
       IN  /\ events[i].link # ""
           /\ \E page \in DetailPages :
                  /\ events' = [events EXCEPT ![i] = Enriched(events[i], page)]
                  /\ enriched' = Append(enriched, Enriched(events[i], page))
                  /\ detail' = Append(detail, [res |-> "ok", page |-> page])
    /\ UNCHANGED <<pc, now, hostOffset, urlIdx, anyPage, raw, before, future,
                   ics, outFile, text, parsed>>

----------------------------------------------------------------------------
(* main: the recency filter *)

\* start.date() >= today - timedelta(days=7), today = TZ.localize(datetime.now()).date()
Recent(start, nw) == Ordinal(start) >= Ordinal(nw) - 7

\* not start or start.date() >= today - timedelta(days=7)
KeepStart(start, nw) ==
    IF start = NoDt THEN TRUE ELSE Recent(start, nw)

Keep(e, nw) == KeepStart(parse_dt(e.date_text, nw)[1], nw)

RECURSIVE FilterRecent(_, _)
FilterRecent(xs, nw) ==
    IF xs = <<>> THEN <<>>
    ELSE IF Keep(Head(xs), nw) THEN <<Head(xs)>> \o FilterRecent(Tail(xs), nw)
    ELSE FilterRecent(Tail(xs), nw)

\* the enrichment loop is over; the clock is read and the filter loop runs
Filter ==
    /\ pc = "enrich"
    /\ Len(enriched) = Len(events)
    /\ \E n \in NowSet :
           /\ (IF now = NoDt THEN TRUE ELSE Before(now, n))
           /\ now' = n
           /\ future' = FilterRecent(enriched, n)
    /\ pc' = "build"
    /\ UNCHANGED <<hostOffset, urlIdx, anyPage, events, raw, enriched, before,
                   detail, ics, outFile, text, parsed>>

----------------------------------------------------------------------------
(* build_ics: the document is the sequence of its lines and line breaks *)

CRLF == <<"\r\n">>

Line(name, value) == <<name, value>>

\* "\r\n".join(lines)
RECURSIVE Join(_)
Join(lines) ==
    IF Len(lines) <= 1 THEN lines
    ELSE <<Head(lines), CRLF>> \o Join(Tail(lines))

\* hashlib.md5(s).hexdigest() + "@eyeofriyadh"; md5 taken as collision-free
to_uid(s) == <<"md5", s, "@eyeofriyadh">>

\* datetime.utcnow()
UtcNow(nw, off) == AddHours(nw, 0 - off)

OrElse(x, dflt) == IF x # "" THEN x ELSE dflt

EventLines(title, link, start, end, loc, description, stamp) ==
    << Line("BEGIN", "VEVENT"),
       Line("UID", to_uid(<<title, link, start>>)),
       Line("DTSTAMP", stamp),
       Line("SUMMARY", title),
       Line("DTSTART;TZID=Asia/Riyadh", start),
       Line("DTEND;TZID=Asia/Riyadh", end),
       Line("LOCATION", loc),
       Line("DESCRIPTION", <<description, "More info: ", link>>),
       Line("URL", link),
       Line("END", "VEVENT") >>

\* "if not end: end = start + timedelta(hours=8)"
WithEnd(ev, start, end, nw, off) ==
    EventLines(OrElse(ev.title, "Untitled Event"), OrElse(ev.link, "BASE_URL"),
               start, IF end # NoDt THEN end ELSE AddHours(start, 8),
               OrElse(ev.location, "Riyadh, Saudi Arabia"),
               ev.description, UtcNow(nw, off))

\* "if not start: start = TZ.localize(datetime.now()).replace(hour=9, minute=0)"
WithStart(ev, se, nw, off) ==
    WithEnd(ev, IF se[1] # NoDt THEN se[1] ELSE [nw EXCEPT !.h = 9, !.mi = 0],
            se[2], nw, off)

\* the VEVENT block of one record; titles are kept as read (normalize_whitespace
\* of a title is not followed character by character)
VEvent(ev, nw, off) == WithStart(ev, parse_dt(ev.date_text, nw), nw, off)

RECURSIVE VEvents(_, _, _)
VEvents(evs, nw, off) ==
    IF evs = <<>> THEN <<>>
    ELSE VEvent(Head(evs), nw, off) \o VEvents(Tail(evs), nw, off)

\* an empty event list gets a placeholder event
build_ics_Placeholder(evs, nw, off) ==
    Join(<< Line("BEGIN", "VCALENDAR"),
            Line("VERSION", "2.0"),
            Line("PRODID", "-//EyeOfRiyadh ICS//EN"),
            Line("CALSCALE", "GREGORIAN"),
            Line("METHOD", "PUBLISH") >>
         \o (IF evs = <<>> THEN VEvent(Rec("No events found", "", <<>>, "", ""), nw, off)
             ELSE VEvents(evs, nw, off))
         \o << Line("END", "VCALENDAR") >>)

build_ics(evs, nw, off) ==
    Join(<< Line("BEGIN", "VCALENDAR"),
            Line("VERSION", "2.0"),
            Line("PRODID", "-//EyeOfRiyadh ICS//EN"),
            Line("CALSCALE", "GREGORIAN"),
            Line("METHOD", "PUBLISH") >>
         \o VEvents(evs, nw, off)
         \o << Line("END", "VCALENDAR") >>)

Build ==
    /\ pc = "build"
    /\ ics' = build_ics(future, now, hostOffset)
    /\ pc' = "write"
    /\ UNCHANGED <<now, hostOffset, urlIdx, anyPage, events, raw, enriched,
                   before, detail, future, outFile, text, parsed>>

\* open(OUT_FILE, "w").write(ics)
Write ==
    /\ pc = "write"
    /\ outFile' = ics
    /\ pc' = "done"
    /\ UNCHANGED <<now, hostOffset, urlIdx, anyPage, events, raw, enriched,
                   before, detail, future, ics, text, parsed>>

----------------------------------------------------------------------------
(* The run of main *)

Init ==
    /\ pc = "scrape"
    /\ now = NoDt
    /\ hostOffset \in HostOffsets
    /\ urlIdx = 1
    /\ anyPage = FALSE
    /\ events = <<>>
    /\ raw = <<>>
    /\ enriched = <<>>
    /\ before = <<>>
    /\ detail = <<>>
    /\ future = <<>>
    /\ ics = <<>>
    /\ outFile = <<>>
    /\ text = <<>>
    /\ parsed = <<>>

Next ==
    \/ PageFetchFails
    \/ PageCards
    \/ PageBadHref
    \/ ScrapeReturn
    \/ EnrichNoLink
    \/ EnrichFetchFails
    \/ EnrichFetched
    \/ Filter
    \/ Build
    \/ Write

Spec == Init /\ [][Next]_vars


----------------------------------------------------------------------------
(* scrape_listings alone *)

NextScrape ==
    \/ PageFetchFails
    \/ PageCards
    \/ PageBadHref
    \/ ScrapeReturn

SpecScrape == Init /\ [][NextScrape]_vars

----------------------------------------------------------------------------
(* main from the recency filter on, over records with all the date texts,    *)
(* and run again by the schedule on an unchanged site                        *)

PublishRecs == {Rec("t1", l, d, "", "") : l \in {"u1", "u2"}, d \in DateTexts}

\* what scrape_listings and the enrichment loop can hand to the filter:
\* records with distinct keys
PublishLists ==
    {q \in SeqsUpTo(PublishRecs, MaxCards) :
        \A i, j \in 1..Len(q) : i # j => KeyOf(q[i]) # KeyOf(q[j])}

InitPublish ==
    /\ pc = "enrich"
    /\ now = NoDt
    /\ hostOffset \in HostOffsets
    /\ urlIdx = Len(list_page_urls) + 1
    /\ anyPage = TRUE
    /\ events \in PublishLists
    /\ raw = events
    /\ enriched = events
    /\ before = events
    /\ detail = [i \in 1..Len(events) |-> [res |-> "fail"]]
    /\ future = <<>>
    /\ ics = <<>>
    /\ outFile = <<>>
    /\ text = <<>>
    /\ parsed = <<>>

\* the next scheduled run of main reaches the filter with the same records;
\* OUT_FILE still holds the document of the run before
RunAgain ==
    /\ pc = "done"
    /\ pc' = "enrich"
    /\ future' = <<>>
    /\ ics' = <<>>
    /\ UNCHANGED <<now, hostOffset, urlIdx, anyPage, events, raw, enriched,
                   before, detail, outFile, text, parsed>>

NextPublish ==
    \/ Filter
    \/ Build
    \/ Write
    \/ RunAgain

SpecPublish == InitPublish /\ [][NextPublish]_vars

----------------------------------------------------------------------------
(* parse_dt alone *)

InitParse ==
    /\ pc = "parse"
    /\ now \in NowSet
    /\ hostOffset \in HostOffsets
    /\ text \in DateTexts
    /\ parsed = <<>>
    /\ urlIdx = 1
    /\ anyPage = FALSE
    /\ events = <<>>
    /\ raw = <<>>
    /\ enriched = <<>>
    /\ before = <<>>
    /\ detail = <<>>
    /\ future = <<>>
    /\ ics = <<>>
    /\ outFile = <<>>

ParseDt ==
    /\ pc = "parse"
    /\ parsed' = parse_dt(text, now)
    /\ pc' = "parsed"
    /\ UNCHANGED <<now, hostOffset, urlIdx, anyPage, events, raw, enriched,
                   before, detail, future, ics, outFile, text>>

NextParse == ParseDt

SpecParse == InitParse /\ [][NextParse]_vars


----------------------------------------------------------------------------
(* Properties *)

\* the positions of the lines called name in a document
Positions(doc, name) ==
    {k \in 1..Len(doc) : Len(doc[k]) = 2 /\ doc[k][1] = name}

\* the k-th smallest element of a set of indices
NthOf(S, k) == CHOOSE i \in S : Cardinality({j \in S : j < i}) = k - 1

\* xs is what is left of ys when exactly the indices in K are kept, in order
IsSelection(xs, ys, K) ==
    /\ Len(xs) = Cardinality(K)
    /\ \A k \in 1..Len(xs) : xs[k] = ys[NthOf(K, k)]

WellFormedEmptyCalendar(doc) ==
    /\ Len(doc) > 0
    /\ doc[1] = Line("BEGIN", "VCALENDAR")
    /\ doc[Len(doc)] = Line("END", "VCALENDAR")
    /\ \A k \in Positions(doc, "BEGIN") : doc[k][2] # "VEVENT"

\* C1: when fetch fails for every listing URL, main raises nothing, keeps
\* running until it is done, and the file it writes is an empty calendar: it
\* begins with BEGIN:VCALENDAR, ends with END:VCALENDAR and has no VEVENT.
C1_EmptyCalendarWhenAllFetchesFail ==
    ~anyPage =>
        /\ pc # "raised"
        /\ pc = "done" => WellFormedEmptyCalendar(outFile)
        /\ pc # "done" => ENABLED Next

C1_Witness ==
    /\ pc = "done"
    /\ ~anyPage
    /\ urlIdx > Len(list_page_urls)

\* C2: no exception raised during the scrape aborts the run: main never ends
\* by raising.
C2_NoExceptionAbortsTheRun == pc # "raised"

FirstOfKey(i) ==
    /\ KeyOf(raw[i]) # ""
    /\ \A j \in 1..(i - 1) : KeyOf(raw[j]) # KeyOf(raw[i])

FirstOfLink(i) ==
    /\ raw[i].link # ""
    /\ \A j \in 1..(i - 1) : raw[j].link # raw[i].link

\* C3 as amended: deduplication is first-seen-wins and order-preserving on the
\* key "link, or title when the record has no link": the result is the raw
\* records that are the first with their non-empty key, in encounter order,
\* so no two records of the result share a key, and a record with neither link
\* nor title is dropped.
C3_FirstSeenWinsByKey ==
    pc = "enrich" =>
        /\ IsSelection(before, raw, {i \in 1..Len(raw) : FirstOfKey(i)})
        /\ \A k, l \in 1..Len(before) :
               k # l => KeyOf(before[k]) # KeyOf(before[l])

C3_Witness ==
    /\ pc = "enrich"
    /\ Len(raw) = 2
    /\ raw[1].link # ""
    /\ raw[1].link = raw[2].link
    /\ raw[1] # raw[2]
    /\ before = <<raw[1]>>

\* C3 as stated: deduplication is first-seen-wins and order-preserving on the
\* link: no two records of the result share a link, the first raw record of each
\* link is the one kept for it, and the kept records are in encounter order.
C3_FirstSeenWinsByLink ==
    pc = "enrich" =>
        /\ \A k, l \in 1..Len(before) :
               (k # l /\ before[k].link # "") => before[k].link # before[l].link
        /\ \A i \in 1..Len(raw) :
               FirstOfLink(i) => \E k \in 1..Len(before) : before[k] = raw[i]
        /\ \A k \in 1..Len(before) :
               before[k].link # "" =>
                   \E i \in 1..Len(raw) : FirstOfLink(i) /\ before[k] = raw[i]
        /\ \A k, l \in 1..Len(before) :
               k < l => \E i, j \in 1..Len(raw) :
                            i < j /\ raw[i] = before[k] /\ raw[j] = before[l]

HasTitleOrLink(e) == e.title # "" \/ e.link # ""

HasTitleAndLink(e) == e.title # "" /\ e.link # ""

\* C4 as amended: every record of the aggregated set returned by
\* scrape_listings, and so every record serialized as a VEVENT, has a non-empty
\* title or a non-empty link (one of the two is enough); only a card missing
\* both never reaches the calendar.
C4_TitleOrLink ==
    pc \notin {"scrape", "raised"} =>
        /\ \A i \in 1..Len(events) : HasTitleOrLink(events[i])
        /\ \A i \in 1..Len(enriched) : HasTitleOrLink(enriched[i])
        /\ \A i \in 1..Len(future) : HasTitleOrLink(future[i])
        /\ pc \in {"write", "done"} =>
               Cardinality(Positions(ics, "UID")) = Len(future)

C4_Witness ==
    /\ pc = "done"
    /\ \E i \in 1..Len(raw) : raw[i].title = "" /\ raw[i].link = ""
    /\ \E i \in 1..Len(future) : future[i].link = ""
    /\ Cardinality(Positions(outFile, "UID")) = Len(future)

\* C4 as stated: every record of the aggregated set, and so every record
\* serialized as a VEVENT, has both a non-empty title and a non-empty link.
C4_TitleAndLink ==
    pc \notin {"scrape", "raised"} =>
        /\ \A i \in 1..Len(events) : HasTitleAndLink(events[i])
        /\ \A i \in 1..Len(enriched) : HasTitleAndLink(enriched[i])
        /\ \A i \in 1..Len(future) : HasTitleAndLink(future[i])

\* the host clock as a wall clock in Asia/Riyadh (UTC+3)
RiyadhNow == AddHours(now, 3 - hostOffset)

KeepRiyadh(e) ==
    KeepStart(parse_dt(e.date_text, now)[1], RiyadhNow)

\* C5: the recency filter keeps a record if and only if its parsed start is
\* absent or its start date is on or after (today - 7 days), today being the
\* date in Asia/Riyadh; the kept records are unchanged and in their order.
C5_RecencyFilterOnRiyadhToday ==
    pc \in {"build", "write", "done"} =>
        IsSelection(future, enriched,
                    {i \in 1..Len(enriched) : KeepRiyadh(enriched[i])})

\* C6: every line of the document returned by build_ics, the final
\* END:VCALENDAR included, is followed by CRLF.
C6_EveryLineEndsWithCrlf ==
    pc \in {"write", "done"} =>
        \A k \in 1..Len(ics) :
            Len(ics[k]) = 2 => (k < Len(ics) /\ ics[k + 1] = CRLF)

\* the UID of each VEVENT of a document, with the URL line of the same block
UidByUrl(doc) ==
    {<<doc[k + 14][2], doc[k][2]>> : k \in Positions(doc, "UID")}

\* C7: the same record serialized by build_ics in two runs, at two different
\* current times, has the same UID: a record of the document just built has
\* the UID it has in the document the run before left in OUT_FILE.
C7_UidStableAcrossRuns ==
    (pc = "write" /\ outFile # <<>>) =>
        \A a \in UidByUrl(ics), b \in UidByUrl(outFile) :
            a[1] = b[1] => a[2] = b[2]

\* the second segment of the text, parsed on its own with the current time as
\* default, gives a date
SecondSegmentParses ==
    /\ text # <<>>
    /\ Len(re_split(normalize_whitespace(text))) > 1
    /\ dateparse(re_split(normalize_whitespace(text))[2], now, now.y) # NoDt

\* C8 as amended: when parsing of the first segment fails (start is None), the
\* second segment, if there is one, is still parsed, with the current time as
\* its default: end is None exactly when there is no second segment or the
\* second segment does not parse on its own, so parse_dt can return (None, end)
\* with end not None.
C8_EndParsedWithoutStart ==
    (pc = "parsed" /\ parsed[1] = NoDt) =>
        (parsed[2] # NoDt <=> SecondSegmentParses)

C8_Witness ==
    /\ pc = "parsed"
    /\ text = TxtBadStart
    /\ parsed[1] = NoDt
    /\ parsed[2] # NoDt

\* C8 as stated: whenever start is None, end is None as well.
C8_NoStartNoEnd ==
    (pc = "parsed" /\ parsed[1] = NoDt) => parsed[2] = NoDt

\* C9: ranged text without time-of-day gives start at 09:00 on the first
\* segment's date and end at 18:00 on the second segment's date, the segments
\* sharing month and year when only one states them: "12-15 Jan 2026",
\* "12 Jan 2026 - 15 Jan 2026" and "12 Jan 2026 - 15" all give
\* 2026-01-12T09:00 and 2026-01-15T18:00.
C9_RangeStartsAt9EndsAt18 ==
    (pc = "parsed" /\ text \in {TxtRange, TxtRangeFull, TxtRangeTail}) =>
        parsed = <<Dt(2026, 1, 12, 9, 0, 0), Dt(2026, 1, 15, 18, 0, 0)>>

\* C10: enrich_from_detail changes only what it may: without a link or with a
\* failed detail fetch the record is unchanged; after a fetch, date_text and
\* location are written only where they were missing, description is written
\* from the page, title and link are never changed; main's enrichment loop
\* drops, adds and reorders nothing.
C10_EnrichmentFrame ==
    /\ Len(enriched) <= Len(before)
    /\ Len(detail) = Len(enriched)
    /\ pc \in {"build", "write", "done"} => Len(enriched) = Len(before)
    /\ \A i \in 1..Len(enriched) :
           /\ enriched[i].title = before[i].title
           /\ enriched[i].link = before[i].link
           /\ before[i].link = "" => detail[i].res = "nolink"
           /\ detail[i].res \in {"nolink", "fail"} => enriched[i] = before[i]
           /\ before[i].date_text # <<>> =>
                  enriched[i].date_text = before[i].date_text
           /\ before[i].location # "" =>
                  enriched[i].location = before[i].location
           /\ detail[i].res = "ok" =>
                  /\ enriched[i].description = detail[i].page.desc
                  /\ before[i].date_text = <<>> =>
                         enriched[i].date_text = detail[i].page.d
                  /\ before[i].location = "" =>
                         enriched[i].location = detail[i].page.l

C10_Witness ==
    /\ pc = "done"
    /\ Len(enriched) = 2
    /\ detail[1].res = "ok"
    /\ before[1].location # ""
    /\ detail[1].page.l # ""
    /\ before[1].date_text = <<>>
    /\ enriched[1].date_text # <<>>
    /\ detail[2].res = "fail"

====
